---- MODULE Spec2Model ----
(***************************************************************************)
(* The cafe REST API of cafes-with-wifi, in its two variants:              *)
(*   "sqlite3"    - src/cafe-api-sqlite3.py    (raw sqlite3 queries)       *)
(*   "sqlalchemy" - src/cafe-api-sqlalchemy.py (Flask-SQLAlchemy mapping)  *)
(* Each variant serves GET /cafes, GET /cafe/<name> and POST /add_cafe     *)
(* over one SQLite table `cafe`.  A request is handled by one thread; the  *)
(* handler's store calls are the steps of the model, so that requests      *)
(* interleave the way the threaded server lets them.                       *)
(***************************************************************************)
EXTENDS Integers, Sequences, FiniteSets, TLC

\* ------------------------------------------------------------- bounds

\* Requests handled at the same time (server threads).
MaxThreads == 2

\* Requests issued in one run.
MaxRequests == 2

\* ------------------------------------------------------ JSON / SQL values

Variants == {"sqlite3", "sqlalchemy"}

Threads == 1..MaxThreads

\* A JSON value (what request.json yields and what jsonify emits).
JStr(s) == [type |-> "string", val |-> s]

JBool(b) == [type |-> "boolean", val |-> IF b THEN "true" ELSE "false"]

JNum(d) == [type |-> "number", val |-> d]

JNull == [type |-> "null", val |-> "null"]

\* A value stored in a column of the SQLite table.
SqlText(s) == [type |-> "text", val |-> s]

SqlInt(d) == [type |-> "integer", val |-> d]

SqlNull == [type |-> "null", val |-> "null"]

\* Decimal text of the row ids the model can assign.
Decimal == <<"1", "2", "3", "4", "5", "6", "7", "8", "9">>

\* The eight keys add_cafe requires, in the order the handler lists them.
RequiredKeys ==
    <<"name", "map_url", "img_url", "location",
      "has_sockets", "has_toilet", "has_wifi", "can_take_calls">>

StringKeys == {"name", "map_url", "img_url", "location"}

BooleanKeys == {"has_sockets", "has_toilet", "has_wifi", "can_take_calls"}

OptionalKeys == {"seats", "coffee_price"}

\* Columns of the DDL declared NOT NULL.
NotNullColumns == RequiredKeys

Range(f) == {f[i] : i \in DOMAIN f}

\* new_cafe.get(key): the value, or None (JSON null) when the key is absent.
Get(body, key) == IF key \in DOMAIN body THEN body[key] ELSE JNull

\* ------------------------------------------------------------ requests

BaseBody(n, wifi) ==
    [name |-> JStr(n), map_url |-> JStr("http://m"), img_url |-> JStr("http://i"),
     location |-> JStr("SF"), has_sockets |-> JBool(TRUE), has_toilet |-> JBool(TRUE),
     has_wifi |-> JBool(wifi), can_take_calls |-> JBool(FALSE)]

With(body, key, v) ==
    [k \in DOMAIN body \cup {key} |-> IF k = key THEN v ELSE body[k]]

Without(body, key) == [k \in DOMAIN body \ {key} |-> body[k]]

NoBody == [k \in {} |-> JNull]

Names == {"Blue Bottle", "blue bottle"}

\* Bodies with the eight required keys, each of the declared JSON type.
ValidBodies ==
    { BaseBody("Blue Bottle", FALSE),
      With(With(BaseBody("Blue Bottle", TRUE), "seats", JStr("20+")),
           "coffee_price", JStr("$3")),
      With(BaseBody("blue bottle", TRUE), "seats", JNull) }

\* Bodies lacking one required key.
LackingBodies ==
    { Without(BaseBody("Blue Bottle", FALSE), k) : k \in Range(RequiredKeys) }

\* Bodies carrying one required key with the value null.
NullBodies ==
    { With(BaseBody("Blue Bottle", FALSE), k, JNull) : k \in Range(RequiredKeys) }

Bodies == ValidBodies \cup LackingBodies \cup NullBodies

Requests ==
    {[route |-> "/cafes", name |-> "", json |-> NoBody]}
    \cup {[route |-> "/cafe/<name>", name |-> n, json |-> NoBody] : n \in Names}
    \cup {[route |-> "/add_cafe", name |-> "", json |-> b] : b \in Bodies}

NoRequest == [route |-> "", name |-> "", json |-> NoBody]

\* ----------------------------------------------------------- responses

NoResponse == [status |-> 0, description |-> <<>>, message |-> "", body |-> <<>>]

\* abort(code, description=...)
Abort(code, text) ==
    [status |-> code, description |-> text, message |-> "", body |-> <<>>]

\* jsonify(obj) with status 200; a list is kept as it is, one object is a
\* sequence of length one (the route tells them apart).
Ok(objects) ==
    [status |-> 200, description |-> <<>>, message |-> "", body |-> objects]

Created ==
    [status |-> 201, description |-> <<>>, message |-> "Cafe added successfully",
     body |-> <<>>]

\* An exception no handler catches: Flask answers 500.
ServerError ==
    [status |-> 500, description |-> <<"Internal Server Error">>, message |-> "",
     body |-> <<>>]

MissingMsg == <<"Missing required fields">>

NotFoundMsg == <<"Cafe not found">>

ExistsMsg == <<"Cafe with this name already exists">>

\* ------------------------------------------------------------ the store

\* A table whose name column lost its UNIQUE constraint.
HasNameUnchecked(rws, nameval) == FALSE

\* UNIQUE(name): some committed row has this name (BINARY collation).
HasName(rws, nameval) == \E i \in DOMAIN rws : rws[i].name = nameval

\* A table whose columns lost their NOT NULL constraints.
FirstNullUnchecked(vals) == 0

\* The first NOT NULL column given NULL, as an index of NotNullColumns (0: none).
FirstNull(vals) ==
    LET bad == {i \in DOMAIN NotNullColumns : vals[NotNullColumns[i]].type = "null"}
    IN IF bad = {} THEN 0 ELSE CHOOSE i \in bad : \A j \in bad : i <= j

\* The constraints of the DDL on INSERT: <<>> when the row is accepted, else the
\* text of the sqlite3.IntegrityError.
ConstraintError(rws, vals) ==
    IF FirstNull(vals) # 0
    THEN <<"NOT NULL constraint failed: cafe.", NotNullColumns[FirstNull(vals)]>>
    ELSE IF HasName(rws, vals.name)
         THEN <<"UNIQUE constraint failed: cafe.name">>
         ELSE <<>>

\* INTEGER PRIMARY KEY: one more than the largest rowid.
NextId(rws) == Len(rws) + 1

NewRow(rws, vals) == [id |-> SqlInt(Decimal[NextId(rws)])] @@ vals

\* The name folded to lower case, for the names of the model.
Fold(n) == IF n = "Blue Bottle" THEN "blue bottle" ELSE n

\* A lookup that compares names without regard to case (COLLATE NOCASE, ilike).
SelectByNameNoCase(rws, n) ==
    SelectSeq(rws, LAMBDA r : r.name.type = "text" /\ Fold(r.name.val) = Fold(n))

\* SELECT * FROM cafe WHERE name = ?
SelectByName(rws, n) == SelectSeq(rws, LAMBDA r : r.name = SqlText(n))

\* ---------------------------------------------- value conversions

\* sqlite3's adaptation of a bound Python value: str -> TEXT, bool -> INTEGER
\* (bool is an int), None -> NULL.
AdaptSqlite3(v) ==
    CASE v.type = "string" -> SqlText(v.val)
      [] v.type = "boolean" -> SqlInt(IF v.val = "true" THEN "1" ELSE "0")
      [] v.type = "number" -> SqlInt(v.val)
      [] OTHER -> SqlNull

\* The INSERT parameters of the sqlite3 variant.
ParamsSqlite3(body) ==
    [k \in Range(RequiredKeys) \cup OptionalKeys |-> AdaptSqlite3(Get(body, k))]

\* dict(row) then jsonify: INTEGER -> number, TEXT -> string, NULL -> null.
JsonOfSql(c) ==
    CASE c.type = "text" -> JStr(c.val)
      [] c.type = "integer" -> JNum(c.val)
      [] OTHER -> JNull

RowToJsonSqlite3(row) == [k \in DOMAIN row |-> JsonOfSql(row[k])]

\* SQLAlchemy's Boolean result processor: INTEGER -> bool; then jsonify.
JsonOfBoolean(c) ==
    CASE c.type = "integer" -> JBool(c.val # "0")
      [] c.type = "text" -> JStr(c.val)
      [] OTHER -> JNull

\* The dict the sqlalchemy variant builds from a Cafe object.
CafeToJson(row) ==
    [k \in DOMAIN row |->
        IF k \in BooleanKeys THEN JsonOfBoolean(row[k]) ELSE JsonOfSql(row[k])]

\* Cafe(...) and the bind processors of its columns: String -> TEXT,
\* Boolean -> INTEGER 0/1, None -> NULL.
ParamsSqlAlchemy(body) ==
    [k \in Range(RequiredKeys) \cup OptionalKeys |-> AdaptSqlite3(Get(body, k))]

Params(v, body) ==
    IF v = "sqlite3" THEN ParamsSqlite3(body) ELSE ParamsSqlAlchemy(body)

Serialize(v, row) ==
    IF v = "sqlite3" THEN RowToJsonSqlite3(row) ELSE CafeToJson(row)

SerializeAll(v, rws) == [i \in DOMAIN rws |-> Serialize(v, rws[i])]

\* A check that forgets the last required key.
HasRequiredButLast(body) ==
    \A i \in DOMAIN RequiredKeys :
        i < Len(RequiredKeys) => RequiredKeys[i] \in DOMAIN body

\* all(key in new_cafe for key in (...))
HasRequired(body) == \A i \in DOMAIN RequiredKeys : RequiredKeys[i] \in DOMAIN body

\* ------------------------------------------------------------- state

VARIABLES
    deployed,   \* the variants that are running
    rows,       \* rows[v]: the committed rows of table cafe, in rowid order
    lock,       \* lock[v]: the connection holding SQLite's write lock, 0 if none
    pending,    \* pending[v]: the rows inserted and not yet committed by lock[v]
    conns,      \* conns[v]: the open connections, each named by its request
    issued,     \* issued[v]: the number of requests received so far
    pc,         \* pc[v][t]: where thread t is in its handler
    req,        \* req[v][t]: the request thread t handles
    ser,        \* ser[v][t]: the serial number of that request
    fetched,    \* fetched[v][t]: the rows its query returned
    exc,        \* exc[v][t]: str(e) of the exception it caught
    resp        \* resp[v][t]: the response it produced

vars == <<deployed, rows, lock, pending, conns, issued, pc, req, ser, fetched, exc, resp>>

\* The state of one variant, as a record.
State(v) ==
    [rows |-> rows[v], lock |-> lock[v], pending |-> pending[v], conns |-> conns[v],
     issued |-> issued[v], pc |-> pc[v], req |-> req[v], ser |-> ser[v],
     fetched |-> fetched[v], exc |-> exc[v], resp |-> resp[v]]

\* The next state of every variant.
StepAll(f) ==
    /\ rows' = [v \in Variants |-> f[v].rows]
    /\ lock' = [v \in Variants |-> f[v].lock]
    /\ pending' = [v \in Variants |-> f[v].pending]
    /\ conns' = [v \in Variants |-> f[v].conns]
    /\ issued' = [v \in Variants |-> f[v].issued]
    /\ pc' = [v \in Variants |-> f[v].pc]
    /\ req' = [v \in Variants |-> f[v].req]
    /\ ser' = [v \in Variants |-> f[v].ser]
    /\ fetched' = [v \in Variants |-> f[v].fetched]
    /\ exc' = [v \in Variants |-> f[v].exc]
    /\ resp' = [v \in Variants |-> f[v].resp]
    /\ UNCHANGED deployed

\* The next state of variant v; the other variant is left alone.
Step(v, s) == StepAll([w \in Variants |-> IF w = v THEN s ELSE State(w)])

Fresh ==
    [rows |-> <<>>, lock |-> 0, pending |-> <<>>, conns |-> {}, issued |-> 0,
     pc |-> [t \in Threads |-> "idle"], req |-> [t \in Threads |-> NoRequest],
     ser |-> [t \in Threads |-> 0], fetched |-> [t \in Threads |-> <<>>],
     exc |-> [t \in Threads |-> <<>>], resp |-> [t \in Threads |-> NoResponse]]

InitStore ==
    /\ rows = [v \in Variants |-> Fresh.rows]
    /\ lock = [v \in Variants |-> Fresh.lock]
    /\ pending = [v \in Variants |-> Fresh.pending]
    /\ conns = [v \in Variants |-> Fresh.conns]
    /\ issued = [v \in Variants |-> Fresh.issued]
    /\ pc = [v \in Variants |-> Fresh.pc]
    /\ req = [v \in Variants |-> Fresh.req]
    /\ ser = [v \in Variants |-> Fresh.ser]
    /\ fetched = [v \in Variants |-> Fresh.fetched]
    /\ exc = [v \in Variants |-> Fresh.exc]
    /\ resp = [v \in Variants |-> Fresh.resp]

\* One of the two API programs is started (cafe-webapp.py: "Run either ...").
Init == deployed \in {{v} : v \in Variants} /\ InitStore

\* ----------------------------------------------------- handler steps

\* Where a handler ends: the sqlite3 variant returns; Flask-SQLAlchemy still
\* runs its teardown (session.remove()).
Exit(v) == IF v = "sqlite3" THEN "done" ELSE "teardown"

\* add_cafe up to its first store call: the check of the required keys.
Validated(v, s, t) ==
    IF HasRequired(s.req[t].json)
    THEN [s EXCEPT !.pc[t] = IF v = "sqlite3" THEN "connect" ELSE "insert"]
    ELSE [s EXCEPT !.resp[t] = Abort(400, MissingMsg), !.pc[t] = Exit(v)]

\* The handler of the route runs up to its first store call.
Received(v, s, t, r) ==
    LET a == [s EXCEPT !.issued = @ + 1, !.ser[t] = s.issued + 1, !.req[t] = r]
    IN IF r.route = "/add_cafe"
       THEN Validated(v, a, t)
       ELSE [a EXCEPT !.pc[t] = IF v = "sqlite3" THEN "connect" ELSE "select"]

\* The threads that handle no request.
Idle(v) == {t \in Threads : pc[v][t] = "idle"}

\* A request arrives and the first free server thread takes it.
Start(v, t, r) ==
    /\ v \in deployed
    /\ t \in Idle(v)
    /\ \A u \in Idle(v) : t <= u
    /\ issued[v] < MaxRequests
    /\ Step(v, Received(v, State(v), t, r))

\* connect_db()
Connect(v, t) ==
    /\ pc[v][t] = "connect"
    /\ Step(v, [State(v) EXCEPT
                  !.conns = @ \cup {ser[v][t]},
                  !.pc[t] = IF req[v][t].route = "/add_cafe" THEN "insert" ELSE "select"])

\* A store that lets every connection write at once: each INSERT is checked
\* against the committed rows only (a read-then-write check).
MayWriteAlways(s, t) == TRUE

\* SQLite lets a connection write when no other connection holds the write lock.
MayWrite(s, t) == s.lock = 0

\* The INSERT statement. It opens a transaction and takes the write lock; a
\* constraint failure undoes the statement and leaves the transaction open.
\* sqlite3 variant: conn.execute(INSERT); IntegrityError -> abort(400), the
\* connection is neither rolled back nor closed.
\* sqlalchemy variant: the flush of db.session.commit(); the exception is caught.
Inserted(v, s, t) ==
    LET vals == Params(v, s.req[t].json)
        err == ConstraintError(s.rows, vals)
        held == [s EXCEPT !.lock = s.ser[t], !.conns = @ \cup {s.ser[t]}]
    IN IF err = <<>>
       THEN [held EXCEPT !.pending = <<NewRow(s.rows, vals)>>, !.pc[t] = "commit"]
       ELSE IF v = "sqlite3"
            THEN [held EXCEPT !.resp[t] = Abort(400, ExistsMsg), !.pc[t] = "done"]
            ELSE [held EXCEPT !.exc[t] = <<"(sqlite3.IntegrityError) ">> \o err,
                              !.pc[t] = "rollback"]

Insert(v, t) ==
    /\ pc[v][t] = "insert"
    /\ MayWrite(State(v), t)
    /\ Step(v, Inserted(v, State(v), t))

\* COMMIT: the pending row becomes visible and the write lock is released.
\* sqlite3 variant: conn.commit().  sqlalchemy variant: the end of
\* db.session.commit(), which hands the connection back and returns 201.
Committed(v, s, t) ==
    LET c == [s EXCEPT !.rows = @ \o s.pending, !.pending = <<>>, !.lock = 0]
    IN IF v = "sqlite3"
       THEN [c EXCEPT !.pc[t] = "close"]
       ELSE [c EXCEPT !.conns = @ \ {s.ser[t]}, !.resp[t] = Created,
                      !.pc[t] = "teardown"]

Commit(v, t) ==
    /\ pc[v][t] = "commit"
    /\ Step(v, Committed(v, State(v), t))

\* db.session.rollback(); abort(400, description=f"Error: {str(e)}")
RolledBack(s, t) ==
    [s EXCEPT !.lock = IF @ = s.ser[t] THEN 0 ELSE @,
              !.pending = IF s.lock = s.ser[t] THEN <<>> ELSE @,
              !.conns = @ \ {s.ser[t]},
              !.resp[t] = Abort(400, <<"Error: ">> \o s.exc[t]),
              !.pc[t] = "teardown"]

Rollback(v, t) ==
    /\ pc[v][t] = "rollback"
    /\ Step(v, RolledBack(State(v), t))

\* The query of a GET handler: all rows, or the rows of the name.
QueryResult(rws, r) ==
    IF r.route = "/cafes" THEN rws ELSE SelectByName(rws, r.name)

\* The response of a GET handler from what the query returned.
Answer(v, r, got) ==
    IF r.route = "/cafes" THEN Ok(SerializeAll(v, got))
    ELSE IF got = <<>> THEN Abort(404, NotFoundMsg)
    ELSE Ok(<<Serialize(v, got[1])>>)

\* sqlite3 variant: conn.execute(query).fetchall() on the handler's connection.
\* sqlalchemy variant: Cafe.query... on a connection the session checks out,
\* and the rest of the handler, which builds the response.
Selected(v, s, t) ==
    LET got == QueryResult(s.rows, s.req[t])
    IN IF v = "sqlite3"
       THEN [s EXCEPT !.fetched[t] = got, !.pc[t] = "close"]
       ELSE [s EXCEPT !.fetched[t] = got, !.conns = @ \cup {s.ser[t]},
                      !.resp[t] = Answer(v, s.req[t], got), !.pc[t] = "teardown"]

Select(v, t) ==
    /\ pc[v][t] = "select"
    /\ Step(v, Selected(v, State(v), t))

\* conn.close() and the rest of the handler: add_cafe returns 201, a GET
\* handler builds its response from the rows query_db returned.
Closed(v, s, t) ==
    IF s.req[t].route = "/add_cafe"
    THEN [s EXCEPT !.conns = @ \ {s.ser[t]}, !.resp[t] = Created, !.pc[t] = "done"]
    ELSE [s EXCEPT !.conns = @ \ {s.ser[t]},
                   !.resp[t] = Answer(v, s.req[t], s.fetched[t]), !.pc[t] = "done"]

Close(v, t) ==
    /\ pc[v][t] = "close"
    /\ Step(v, Closed(v, State(v), t))

\* Flask-SQLAlchemy's teardown: session.remove() rolls back what is open and
\* hands the connection back.
TornDown(s, t) ==
    [s EXCEPT !.lock = IF @ = s.ser[t] THEN 0 ELSE @,
              !.pending = IF s.lock = s.ser[t] THEN <<>> ELSE @,
              !.conns = @ \ {s.ser[t]},
              !.pc[t] = "done"]

Teardown(v, t) ==
    /\ pc[v][t] = "teardown"
    /\ Step(v, TornDown(State(v), t))

\* The response is sent and the thread is free again.
Retired(s, t) ==
    [s EXCEPT !.pc[t] = "idle", !.req[t] = NoRequest, !.ser[t] = 0,
              !.fetched[t] = <<>>, !.exc[t] = <<>>, !.resp[t] = NoResponse]

Retire(v, t) ==
    /\ v \in deployed
    /\ pc[v][t] = "done"
    /\ Step(v, Retired(State(v), t))

\* A connection no running handler refers to is closed by the runtime when it
\* collects the object: its open transaction is rolled back and its lock dropped.
Unreferenced(s, c) == \A t \in Threads : s.ser[t] = c => s.pc[t] = "done"

Finalize(v, c) ==
    /\ c \in conns[v]
    /\ Unreferenced(State(v), c)
    /\ Step(v, [State(v) EXCEPT !.conns = @ \ {c},
                                !.lock = IF @ = c THEN 0 ELSE @,
                                !.pending = IF lock[v] = c THEN <<>> ELSE @])

HandlerStep(v, t) ==
    \/ Connect(v, t)
    \/ Insert(v, t)
    \/ Commit(v, t)
    \/ Rollback(v, t)
    \/ Select(v, t)
    \/ Close(v, t)
    \/ Teardown(v, t)

Next ==
    \/ \E v \in Variants, t \in Threads, r \in Requests : Start(v, t, r)
    \/ \E v \in Variants, t \in Threads : HandlerStep(v, t)
    \/ \E v \in Variants, t \in Threads : Retire(v, t)
    \/ \E v \in Variants, c \in 1..MaxRequests : Finalize(v, c)

Spec == Init /\ [][Next]_vars

\* ------------------------------------------- the two variants side by side

\* Both programs run, each over its own copy of the table, and one client sends
\* every request to both and waits for both answers before the next request.
InitSeq == deployed = Variants /\ InitStore

StartBoth(r) ==
    /\ deployed = Variants
    /\ \A v \in Variants : \A t \in Threads : pc[v][t] = "idle"
    /\ \A v \in Variants : issued[v] < MaxRequests
    /\ StepAll([v \in Variants |-> Received(v, State(v), 1, r)])

RetireBoth ==
    /\ deployed = Variants
    /\ \A v \in Variants : pc[v][1] = "done"
    /\ StepAll([v \in Variants |-> Retired(State(v), 1)])

NextSeq ==
    \/ \E r \in Requests : StartBoth(r)
    \/ \E v \in Variants, t \in Threads : HandlerStep(v, t)
    \/ RetireBoth
    \/ \E v \in Variants, c \in 1..MaxRequests : Finalize(v, c)

SpecSeq == InitSeq /\ [][NextSeq]_vars

\* ------------------------------------------------------- store failures

\* Text of a failure of the store other than a constraint (sqlite3.OperationalError).
LockedMsg == <<"database is locked">>

\* A store call raises sqlite3.OperationalError (the file is locked past the busy
\* timeout, an I/O error, the file cannot be opened).
\* sqlite3 variant: add_cafe catches sqlite3.IntegrityError only and the GET
\* handlers catch nothing; the connection, if open, is not closed.
\* sqlalchemy variant: add_cafe catches Exception; the GET handlers catch nothing.
Failed(v, s, t) ==
    IF v = "sqlite3"
    THEN [s EXCEPT !.resp[t] = ServerError, !.pc[t] = "done"]
    ELSE IF s.pc[t] = "insert"
         THEN [s EXCEPT !.exc[t] = <<"(sqlite3.OperationalError) ">> \o LockedMsg,
                        !.conns = @ \cup {s.ser[t]},
                        !.pc[t] = "rollback"]
         ELSE [s EXCEPT !.resp[t] = ServerError, !.conns = @ \cup {s.ser[t]},
                        !.pc[t] = "teardown"]

StoreFails(v, t) ==
    /\ pc[v][t] \in {"connect", "insert", "select"}
    /\ Step(v, Failed(v, State(v), t))

NextFault ==
    \/ Next
    \/ \E v \in Variants, t \in Threads : StoreFails(v, t)

SpecFault == Init /\ [][NextFault]_vars

\* ------------------------------------------------ vocabulary of the claims

IsCreate(v, t) == req[v][t].route = "/add_cafe"

IsLookup(v, t) == req[v][t].route = "/cafe/<name>"

Finished(v, t) == pc[v][t] = "done"

\* Thread t of variant v takes a step of its handler (its first when it
\* receives the request).
Stepped(v, t) == pc[v][t] # "done" /\ pc'[v][t] # pc[v][t]

IsValid(v, t) == IsCreate(v, t) /\ req[v][t].json \in ValidBodies

\* The name a create submits, as the store compares it.
SubmittedName(v, t) == SqlText(Get(req[v][t].json, "name").val)

CountName(rws, nameval) == Cardinality({i \in DOMAIN rws : rws[i].name = nameval})

NameStored(rws, nameval) == CountName(rws, nameval) > 0

\* The body lacks one of the eight required keys.
LacksRequired(body) == \E k \in Range(RequiredKeys) : k \notin DOMAIN body

\* A required key is present with the value null.
HasNullRequired(body) ==
    ~LacksRequired(body) /\ \E k \in Range(RequiredKeys) : body[k] = JNull

\* ----------------------------------------------------------------- C1

C1_State ==
    \A v \in Variants :
        /\ \A n \in Names : CountName(rows[v], SqlText(n)) <= 1
        /\ \A t \in Threads :
               Finished(v, t) /\ IsValid(v, t) =>
                   /\ resp[v][t].status \in {201, 400}
                   /\ CountName(rows[v], SubmittedName(v, t)) = 1

C1_Step ==
    \A v \in Variants : \A t \in Threads :
        /\ ( /\ IsCreate(v, t) /\ pc[v][t] = "insert" /\ Stepped(v, t)
             /\ NameStored(rows[v], SubmittedName(v, t)) ) =>
               /\ rows'[v] = rows[v]
               /\ pending'[v] = <<>>
               /\ pc'[v][t] \in {"done", "rollback"}
               /\ pc'[v][t] = "done" => resp'[v][t].status = 400
        /\ (IsCreate(v, t) /\ pc[v][t] = "rollback" /\ Stepped(v, t)) =>
               /\ rows'[v] = rows[v]
               /\ resp'[v][t].status = 400
        /\ (IsCreate(v, t) /\ pc[v][t] = "teardown" /\ Stepped(v, t)) =>
               /\ rows'[v] = rows[v]
               /\ resp'[v][t] = resp[v][t]

SameNameCreates(v, t, u) ==
    /\ t # u
    /\ Finished(v, t) /\ IsValid(v, t)
    /\ Finished(v, u) /\ IsValid(v, u)
    /\ SubmittedName(v, t) = SubmittedName(v, u)

\* C2: of two creates of one name handled at the same time, never both return
\* 201, each returns 201 or 400, one row of the name is stored, and when they are
\* the only requests so far exactly one of them returned 201.
C2_ConcurrentCreates ==
    \A v \in Variants : \A t, u \in Threads :
        SameNameCreates(v, t, u) =>
            /\ {resp[v][t].status, resp[v][u].status} \subseteq {201, 400}
            /\ ~(resp[v][t].status = 201 /\ resp[v][u].status = 201)
            /\ CountName(rows[v], SubmittedName(v, t)) = 1
            /\ issued[v] = 2 => 201 \in {resp[v][t].status, resp[v][u].status}

\* Two creates of one name overlapped: the one that arrived second returned 201
\* and the one that arrived first 400.
C2_Witness ==
    \E v \in Variants : \E t, u \in Threads :
        /\ SameNameCreates(v, t, u)
        /\ issued[v] = 2
        /\ ser[v][t] < ser[v][u]
        /\ resp[v][t].status = 400
        /\ resp[v][u].status = 201

\* ----------------------------------------------------------------- C3

C3_Step ==
    \A v \in Variants : \A t \in Threads :
        ( /\ Stepped(v, t)
          /\ req'[v][t].route = "/add_cafe"
          /\ LacksRequired(req'[v][t].json) ) =>
            /\ rows' = rows
            /\ pending' = pending
            /\ lock' = lock
            /\ conns' = conns
            /\ resp'[v][t] = Abort(400, MissingMsg)
            /\ pc'[v][t] \in {"teardown", "done"}

\* C3: every step of a create whose body lacks a required key leaves the rows,
\* the write lock and the open connections as they were, and the request ends
\* with 400 "Missing required fields".
C3_MissingKeyTouchesNothing == [][C3_Step]_vars

\* A create lacking a required key has been answered while a row is stored.
C3_Witness ==
    \E v \in Variants : \E t \in Threads :
        /\ Finished(v, t) /\ IsCreate(v, t)
        /\ LacksRequired(req[v][t].json)
        /\ resp[v][t] = Abort(400, MissingMsg)
        /\ rows[v] # <<>>

\* ----------------------------------------------------------------- C4

\* The object returned carries the submitted values.
FieldsReturned(obj, body) ==
    /\ \A k \in StringKeys \cup BooleanKeys : obj[k] = body[k]
    /\ \A k \in OptionalKeys : obj[k] = Get(body, k)

\* C4: when a create has returned 201 and a lookup of its name has returned 200,
\* the object returned carries the four strings and the four JSON booleans as
\* submitted, and seats / coffee_price as submitted or null.
C4_RoundTrip ==
    \A v \in Variants : \A p, g \in Threads :
        ( /\ Finished(v, p) /\ IsValid(v, p) /\ resp[v][p].status = 201
          /\ Finished(v, g) /\ IsLookup(v, g) /\ resp[v][g].status = 200
          /\ SqlText(req[v][g].name) = SubmittedName(v, p) ) =>
            /\ Len(resp[v][g].body) = 1
            /\ FieldsReturned(resp[v][g].body[1], req[v][p].json)

\* ----------------------------------------------------------------- C5

\* C5: no create whose body passed validation ends as an unhandled server error.
C5_NoServerError ==
    \A v \in Variants : \A t \in Threads :
        (IsCreate(v, t) /\ ~LacksRequired(req[v][t].json)) => resp[v][t].status # 500

\* ----------------------------------------------------------------- C6

\* C6: a request that has finished has no connection of its own still open.
C6_ConnectionReleased ==
    \A v \in Variants : \A t \in Threads :
        Finished(v, t) => ser[v][t] \notin conns[v]

\* ----------------------------------------------------------------- C7

\* C7: given the same requests one after another, the two variants give the
\* same response to each and hold the same rows.
C7_VariantsAgree ==
    (\A v \in Variants : Finished(v, 1)) =>
        /\ resp["sqlite3"][1] = resp["sqlalchemy"][1]
        /\ rows["sqlite3"] = rows["sqlalchemy"]

\* ----------------------------------------------------------------- C8

C8_Step ==
    \A v \in Variants : \A t \in Threads :
        (Stepped(v, t) /\ req'[v][t].route = "/cafe/<name>") =>
            /\ rows' = rows
            /\ pc[v][t] = "select" =>
                   /\ (fetched'[v][t] = <<>>) <=> ~NameStored(rows[v], SqlText(req[v][t].name))
                   /\ \A i \in DOMAIN fetched'[v][t] :
                          /\ fetched'[v][t][i].name = SqlText(req[v][t].name)
                          /\ fetched'[v][t][i] \in Range(rows[v])
            /\ pc[v][t] # "select" => fetched'[v][t] = fetched[v][t]
            /\ resp[v][t] # NoResponse => resp'[v][t] = resp[v][t]
            /\ pc'[v][t] = "done" => resp'[v][t] # NoResponse
            /\ (resp[v][t] = NoResponse /\ resp'[v][t] # NoResponse) =>
                   IF fetched'[v][t] = <<>>
                   THEN resp'[v][t] = Abort(404, NotFoundMsg)
                   ELSE /\ resp'[v][t].status = 200
                        /\ Len(resp'[v][t].body) = 1
                        /\ resp'[v][t].body[1].name = JStr(req[v][t].name)
                        /\ resp'[v][t].body[1].id = JNum(fetched'[v][t][1].id.val)

\* C8: a lookup's query returns no row exactly when no committed row has the
\* name, exactly; the handler answers, once, 404 "Cafe not found" exactly when
\* the query returned none and else 200 with the one row of that name; no step
\* of a lookup changes the rows.
C8_LookupByName == [][C8_Step]_vars

\* A lookup found nothing under a name that differs only in case from a stored one.
C8_Witness ==
    \E v \in Variants : \E t \in Threads :
        /\ Finished(v, t) /\ IsLookup(v, t)
        /\ resp[v][t] = Abort(404, NotFoundMsg)
        /\ req[v][t].name = "blue bottle"
        /\ NameStored(rows[v], SqlText("Blue Bottle"))

\* ----------------------------------------------------------------- C9

RequiredNotNull(row) ==
    \A i \in DOMAIN RequiredKeys : row[RequiredKeys[i]].type # "null"

IsConflictMsg(text) ==
    \/ text = ExistsMsg
    \/ text = <<"Error: ", "(sqlite3.IntegrityError) ", "UNIQUE constraint failed: cafe.name">>

\* C10: a create answered with a name-conflict description submitted a name that
\* the store holds.
C10_ConflictOnlyOnDuplicate ==
    \A v \in Variants : \A t \in Threads :
        (Finished(v, t) /\ IsCreate(v, t) /\ IsConflictMsg(resp[v][t].description)) =>
            NameStored(rows[v], SubmittedName(v, t))

====
